---- MODULE Spec2Model ----
(***************************************************************************)
(* Model of the pyRevit updater (loader/Lib/pyRevit/loader/updater.py):    *)
(* repository discovery (get_all_available_repos), the divergence check    *)
(* (has_pending_updates) and the pull (update_pyrevit), over a git backend *)
(* whose calls either return or raise.                                     *)
(***************************************************************************)
EXTENDS Integers, Sequences, FiniteSets, TLC

\* ---------------------------------------------------------------- bounds
NumPkgs == 2        \* package candidate directories returned by the package locator
NumRemotes == 2     \* remotes configured in a repository
MaxBranches == 2    \* branches in the home repository
MaxCommits == 1     \* commits a tracking branch lacks relative to its upstream

\* ---------------------------------------------------------------- directories
HOME_DIR == 0
PkgDirs == 1..NumPkgs
Dirs == {HOME_DIR} \cup PkgDirs
Remotes == 1..NumRemotes

\* What is on disk in a directory:
\*   notrepo   - Repository.IsValid is false and Repository(dir) raises
\*   openfails - the probe passes but Repository(dir) raises
\*   unborn    - Repository(dir) opens, but Head.Tip is null (no commit yet)
\*   good      - Repository(dir) opens and the head commit is readable
DirStates == {"notrepo", "openfails", "unborn", "good"}

VARIABLES
    dirState,   \* [Dirs -> DirStates]
    content,    \* [Dirs -> repository]: the branches and head commit on disk
    pc,         \* "start" before discovery, "discovered" after
    repos,      \* the list returned by get_all_available_repos
    live,       \* directories whose backend Repository object is open (not disposed)
    log,        \* the log lines of the last call
    last        \* the last call: operation, argument, result, backend outcomes

vars == <<dirState, content, pc, repos, live, log, last>>

\* ---------------------------------------------------------------- repository content
\* A branch: TrackedBranch is the remote it tracks (0: none); gone says the
\* tracked branch has no tip (its ref is missing); behind counts the commits
\* of the remote-tracking ref the local tip lacks; pending counts the commits
\* upstream that have not been fetched into the remote-tracking ref yet.
RemoteBranch ==
    [IsRemote |-> TRUE, TrackedBranch |-> 0, gone |-> FALSE, behind |-> 0, pending |-> 0]

UntrackedBranch ==
    [IsRemote |-> FALSE, TrackedBranch |-> 0, gone |-> FALSE, behind |-> 0, pending |-> 0]

TrackingBranches ==
    {[IsRemote |-> FALSE, TrackedBranch |-> r, gone |-> TRUE, behind |-> 0, pending |-> 0] :
        r \in Remotes}
    \cup
    {[IsRemote |-> FALSE, TrackedBranch |-> r, gone |-> FALSE, behind |-> b, pending |-> p] :
        r \in Remotes, b \in 0..MaxCommits, p \in 0..MaxCommits}

BranchShapes ==
    {RemoteBranch, UntrackedBranch}
    \cup {b \in TrackingBranches : b.behind + b.pending <= MaxCommits}

\* The head (checked-out) branch is the first one and is a local branch.
RepoShapes ==
    {[branches |-> bs, tip |-> 0] :
        bs \in {s \in UNION {[1..n -> BranchShapes] : n \in 1..MaxBranches} :
                    ~ s[1].IsRemote}}

EmptyRepo == [branches |-> <<>>, tip |-> 0]

\* One local branch tracking remote 1, up to date.
CanonicalRepo ==
    [branches |-> <<[IsRemote |-> FALSE, TrackedBranch |-> 1, gone |-> FALSE,
                     behind |-> 0, pending |-> 0]>>,
     tip |-> 0]

\* ---------------------------------------------------------------- values
None == [none |-> TRUE]

PyRevitRepoInfo(directory, head_name, last_commit_hash, repo) ==
    [directory |-> directory, head_name |-> head_name,
     last_commit_hash |-> last_commit_hash, repo |-> repo]

\* Whether a list element holds the backend object of directory d
Refers(h, d) == IF h = None THEN FALSE ELSE h.repo = d

\* A log line. The logger.error lines and the success line of update_pyrevit
\* are kept; the other logger.debug lines change no result and are left out.
LogLine(level, msg, dir) == [level |-> level, msg |-> msg, dir |-> dir]

NoCall ==
    [op |-> "none", idx |-> 0, dir |-> -1, ret |-> "none", attempts |-> <<>>,
     fetched |-> {}, outcome |-> "none", preTip |-> 0]

\* ---------------------------------------------------------------- backend
\* git.Repository.IsValid(path)
IsValid(d) == dirState[d] # "notrepo"

\* git.Repository(path): whether the constructor returns (else it raises)
RepositoryOpens(d) == dirState[d] \in {"unborn", "good"}

\* repo.Head.Tip.Id.Sha at construction: Tip is null in a repository with no commit
HeadTipReadable(d) == dirState[d] = "good"

\* repo.Network.Fetch(remote, options), when it succeeds: the remote-tracking
\* refs of that remote advance to the upstream tips
Fetch(repo, r) ==
    [repo EXCEPT !.branches =
        [i \in 1..Len(repo.branches) |->
            LET b == repo.branches[i] IN
            IF ~ b.IsRemote /\ b.TrackedBranch = r /\ ~ b.gone
            THEN [b EXCEPT !.behind = b.behind + b.pending, !.pending = 0]
            ELSE b]]

\* The merge step of a pull: the head branch integrates its tracked branch
Merge(repo) ==
    LET head == repo.branches[1] IN
    [repo EXCEPT !.branches[1].behind = 0, !.tip = repo.tip + head.behind]

\* The ways repo.Network.Pull can end for a repository
PullOutcomes(repo) ==
    LET head == repo.branches[1] IN
    IF head.TrackedBranch = 0 THEN {"notracked"}
    ELSE {"auth", "network"}
         \cup (IF head.gone THEN {"notracked"} ELSE {"ok"})
         \cup (IF ~ head.gone /\ head.behind + head.pending > 0 THEN {"conflict"} ELSE {})

\* repo.Network.Pull(signature, options): fetch the head's remote, then merge.
\* Every outcome but "ok" raises.
Pull(repo, outcome) ==
    LET head == repo.branches[1] IN
    CASE outcome = "ok" -> Merge(Fetch(repo, head.TrackedBranch))
      [] outcome = "conflict" -> Fetch(repo, head.TrackedBranch)
      [] outcome = "notracked" /\ head.TrackedBranch # 0 -> Fetch(repo, head.TrackedBranch)
      [] OTHER -> repo

\* repo.ObjectDatabase.CalculateHistoryDivergence(branch.Tip, branch.TrackedBranch.Tip):
\* raises when the tracked branch has no tip
DivergenceRaises(b) == b.gone

BehindBy(b) == b.behind

\* ---------------------------------------------------------------- discovery
\* get_pyrevit_repo: no probe; any exception is logged and None is returned
get_pyrevit_repo ==
    IF RepositoryOpens(HOME_DIR) /\ HeadTipReadable(HOME_DIR)
    THEN [ret |-> PyRevitRepoInfo(HOME_DIR, 1, content[HOME_DIR].tip, HOME_DIR),
          log |-> <<>>,
          opened |-> {HOME_DIR}]
    ELSE [ret |-> None,
          log |-> <<LogLine("error", "Can not create repo", HOME_DIR)>>,
          opened |-> IF RepositoryOpens(HOME_DIR) THEN {HOME_DIR} ELSE {}]

\* The candidate directories, in the order the package locator returns them
Candidates == [i \in 1..NumPkgs |-> i]

\* ProbeLoop without the IsValid test: every candidate goes on to be opened
ProbeLoopNoProbe(cands, pkgs) == pkgs \o cands

RECURSIVE ProbeLoop(_, _)
ProbeLoop(cands, pkgs) ==
    IF cands = <<>> THEN pkgs
    ELSE ProbeLoop(Tail(cands),
                   IF IsValid(Head(cands)) THEN Append(pkgs, Head(cands)) ELSE pkgs)

\* OpenLoop with the try around the whole loop: the first failure ends it
RECURSIVE OpenLoopAbort(_, _)
OpenLoopAbort(pkgs, acc) ==
    IF pkgs = <<>> THEN acc
    ELSE LET d == Head(pkgs) IN
         IF RepositoryOpens(d) /\ HeadTipReadable(d)
         THEN OpenLoopAbort(Tail(pkgs),
                [acc EXCEPT
                    !.ret = Append(@, PyRevitRepoInfo(d, 1, content[d].tip, d)),
                    !.opened = @ \cup {d}])
         ELSE [acc EXCEPT
                    !.log = Append(@, LogLine("error", "Can not create repo", d)),
                    !.opened = IF RepositoryOpens(d) THEN @ \cup {d} ELSE @]

RECURSIVE OpenLoop(_, _)
OpenLoop(pkgs, acc) ==
    IF pkgs = <<>> THEN acc
    ELSE LET d == Head(pkgs) IN
         OpenLoop(Tail(pkgs),
            IF RepositoryOpens(d) /\ HeadTipReadable(d)
            THEN [acc EXCEPT
                    !.ret = Append(@, PyRevitRepoInfo(d, 1, content[d].tip, d)),
                    !.opened = @ \cup {d}]
            ELSE [acc EXCEPT
                    !.log = Append(@, LogLine("error", "Can not create repo", d)),
                    !.opened = IF RepositoryOpens(d) THEN @ \cup {d} ELSE @])

get_thirdparty_pkg_repos ==
    OpenLoop(ProbeLoop(Candidates, <<>>), [ret |-> <<>>, log |-> <<>>, opened |-> {}])

get_all_available_repos ==
    LET home == get_pyrevit_repo
        third == get_thirdparty_pkg_repos
    IN [ret |-> <<home.ret>> \o third.ret,
        log |-> home.log \o third.log,
        opened |-> home.opened \cup third.opened]

\* ---------------------------------------------------------------- divergence
\* FetchLoop with the try around the whole loop: the first failed fetch ends it
RECURSIVE FetchLoopAbort(_, _, _, _)
FetchLoopAbort(r, fetchOK, d, acc) ==
    IF r > NumRemotes THEN acc
    ELSE IF fetchOK[r]
    THEN FetchLoopAbort(r + 1, fetchOK, d,
            [acc EXCEPT !.repo = Fetch(@, r), !.attempts = Append(@, r)])
    ELSE [acc EXCEPT !.attempts = Append(@, r),
                     !.log = Append(@, LogLine("error", "Failed fetching", d))]

RECURSIVE FetchLoop(_, _, _, _)
FetchLoop(r, fetchOK, d, acc) ==
    IF r > NumRemotes THEN acc
    ELSE FetchLoop(r + 1, fetchOK, d,
            IF fetchOK[r]
            THEN [acc EXCEPT !.repo = Fetch(@, r), !.attempts = Append(@, r)]
            ELSE [acc EXCEPT !.attempts = Append(@, r),
                             !.log = Append(@, LogLine("error", "Failed fetching", d))])

\* CompareLoop with the final return inside the loop: only the first compared
\* branch decides
RECURSIVE CompareLoopFirstOnly(_, _, _)
CompareLoopFirstOnly(branches, d, lg) ==
    IF branches = <<>> THEN [ret |-> "False", log |-> lg]
    ELSE LET branch == Head(branches) IN
         IF branch.IsRemote \/ branch.TrackedBranch = 0
         THEN CompareLoopFirstOnly(Tail(branches), d, lg)
         ELSE IF DivergenceRaises(branch)
         THEN CompareLoopFirstOnly(Tail(branches), d,
                          Append(lg, LogLine("error", "Can not compare branch", d)))
         ELSE IF BehindBy(branch) > 0
         THEN [ret |-> "True", log |-> lg]
         ELSE [ret |-> "False", log |-> lg]

RECURSIVE CompareLoop(_, _, _)
CompareLoop(branches, d, lg) ==
    IF branches = <<>> THEN [ret |-> "False", log |-> lg]
    ELSE LET branch == Head(branches) IN
         IF branch.IsRemote \/ branch.TrackedBranch = 0
         THEN CompareLoop(Tail(branches), d, lg)
         ELSE IF DivergenceRaises(branch)
         THEN CompareLoop(Tail(branches), d,
                          Append(lg, LogLine("error", "Can not compare branch", d)))
         ELSE IF BehindBy(branch) > 0
         THEN [ret |-> "True", log |-> lg]
         ELSE CompareLoop(Tail(branches), d, lg)

\* has_pending_updates(repo_info) on an actual handle
has_pending_updates(repo_info, fetchOK) ==
    LET d == repo_info.directory
        f == FetchLoop(1, fetchOK, d, [repo |-> content[d], attempts |-> <<>>, log |-> <<>>])
        c == CompareLoop(f.repo.branches, d, f.log)
    IN [ret |-> c.ret, log |-> c.log, repo |-> f.repo, attempts |-> f.attempts]

\* ---------------------------------------------------------------- update
\* update_pyrevit whose exception handler falls through to the success return
update_pyrevit_swallow(repo_info, headReadable, outcome) ==
    LET d == repo_info.directory IN
    IF ~ headReadable
    THEN [ret |-> "raised", log |-> <<>>, repo |-> content[d]]
    ELSE [ret |-> "True",
          log |-> IF outcome = "ok"
                  THEN <<LogLine("debug", "Successfully updated repo", d)>>
                  ELSE <<LogLine("error", "Failed updating", d)>>,
          repo |-> Pull(content[d], outcome)]

\* update_pyrevit(repo_info) on an actual handle; headReadable says whether
\* repo.Head.Tip.Message (read before the try block) can be read
update_pyrevit(repo_info, headReadable, outcome) ==
    LET d == repo_info.directory IN
    IF ~ headReadable
    THEN [ret |-> "raised", log |-> <<>>, repo |-> content[d]]
    ELSE IF outcome = "ok"
    THEN [ret |-> "True",
          log |-> <<LogLine("debug", "Successfully updated repo", d)>>,
          repo |-> Pull(content[d], outcome)]
    ELSE [ret |-> "False",
          log |-> <<LogLine("error", "Failed updating", d)>>,
          repo |-> Pull(content[d], outcome)]

\* ---------------------------------------------------------------- actions
InitDirs ==
    /\ dirState \in [Dirs -> DirStates]
    /\ content = [d \in Dirs |-> IF dirState[d] = "good" THEN CanonicalRepo ELSE EmptyRepo]

InitRepo ==
    /\ dirState = [d \in Dirs |-> IF d = HOME_DIR THEN "good" ELSE "notrepo"]
    /\ content \in {[d \in Dirs |-> IF d = HOME_DIR THEN s ELSE EmptyRepo] :
                        s \in RepoShapes}

Init ==
    /\ InitDirs \/ InitRepo
    /\ pc = "start"
    /\ repos = <<>>
    /\ live = {}
    /\ log = <<>>
    /\ last = NoCall

DiscoverAll ==
    /\ pc = "start"
    /\ LET r == get_all_available_repos IN
        /\ repos' = r.ret
        /\ log' = r.log
        /\ live' = live \cup r.opened
        /\ last' = [NoCall EXCEPT !.op = "discover", !.ret = "list"]
    /\ pc' = "discovered"
    /\ UNCHANGED <<dirState, content>>

HasPendingUpdates(i) ==
    /\ pc = "discovered"
    /\ i \in 1..Len(repos)
    /\ IF repos[i] = None
       THEN \* repo_info.repo on None raises AttributeError
            /\ last' = [NoCall EXCEPT !.op = "has_pending", !.idx = i, !.ret = "raised"]
            /\ log' = <<>>
            /\ UNCHANGED content
       ELSE \E fetchOK \in [Remotes -> BOOLEAN] :
            LET d == repos[i].directory
                r == has_pending_updates(repos[i], fetchOK)
            IN /\ last' = [NoCall EXCEPT !.op = "has_pending", !.idx = i, !.dir = d,
                                         !.ret = r.ret, !.attempts = r.attempts,
                                         !.fetched = {x \in Remotes : fetchOK[x]},
                                         !.preTip = content[d].tip]
               /\ log' = r.log
               /\ content' = [content EXCEPT ![d] = r.repo]
    /\ UNCHANGED <<dirState, pc, repos, live>>

Update(i) ==
    /\ pc = "discovered"
    /\ i \in 1..Len(repos)
    /\ IF repos[i] = None
       THEN \* repo_info.repo on None raises AttributeError
            /\ last' = [NoCall EXCEPT !.op = "update", !.idx = i, !.ret = "raised"]
            /\ log' = <<>>
            /\ UNCHANGED content
       ELSE \E headReadable \in BOOLEAN :
            \E outcome \in PullOutcomes(content[repos[i].directory]) :
            LET d == repos[i].directory
                r == update_pyrevit(repos[i], headReadable, outcome)
            IN /\ last' = [NoCall EXCEPT !.op = "update", !.idx = i, !.dir = d,
                                         !.ret = r.ret,
                                         !.outcome = IF headReadable THEN outcome ELSE "none",
                                         !.preTip = content[d].tip]
               /\ log' = r.log
               /\ content' = [content EXCEPT ![d] = r.repo]
    /\ UNCHANGED <<dirState, pc, repos, live>>

\* The runtime finalizes a Repository object nothing refers to any more
Finalize(d) ==
    /\ d \in live
    /\ \A i \in 1..Len(repos) : ~ Refers(repos[i], d)
    /\ pc = "discovered"
    /\ live' = live \ {d}
    /\ UNCHANGED <<dirState, content, pc, repos, log, last>>

Next ==
    \/ DiscoverAll
    \/ \E i \in 1..(NumPkgs + 1) : HasPendingUpdates(i)
    \/ \E i \in 1..(NumPkgs + 1) : Update(i)
    \/ \E d \in Dirs : Finalize(d)

Spec == Init /\ [][Next]_vars

\* ---------------------------------------------------------------- vocabulary of the properties
Booleans == {"True", "False"}

\* The call just made was op on an element of the list that is an actual handle
OnHandle(op) == last.op = op /\ last.dir # -1

HasHandleFor(d) == \E i \in 1..Len(repos) : Refers(repos[i], d)

ErrorLines(msg, d) ==
    {i \in 1..Len(log) : log[i].level = "error" /\ log[i].msg = msg /\ log[i].dir = d}

IsHandle(h) == h # None

IsGood(d) == dirState[d] = "good"

\* Local branches with a tracked remote branch whose divergence is defined
Comparable(repo) ==
    {i \in 1..Len(repo.branches) :
        /\ ~ repo.branches[i].IsRemote
        /\ repo.branches[i].TrackedBranch # 0
        /\ ~ repo.branches[i].gone}

\* ---------------------------------------------------------------- C1
\* C1: update_pyrevit on a handle never propagates an exception: it returns
\* a boolean and leaves a log line, whatever the backend does.
C1_UpdateNeverRaises ==
    OnHandle("update") => last.ret \in Booleans /\ Len(log) >= 1

\* ---------------------------------------------------------------- C2
\* C2: when the home handle cannot be constructed the returned list has no
\* entry for it: every element is a handle and the length is the number of
\* repositories that opened.
C2_HomeOmitted ==
    last.op = "discover" =>
        /\ \A i \in 1..Len(repos) : IsHandle(repos[i])
        /\ Len(repos) = Cardinality({d \in Dirs : IsGood(d)})

\* ---------------------------------------------------------------- C3
\* C3: has_pending_updates on a handle returns True exactly when, after a
\* fetch was attempted on every remote, some local branch with a tracked
\* remote branch has BehindBy > 0, and False otherwise.
C3_PendingIff ==
    OnHandle("has_pending") =>
        /\ last.ret \in Booleans
        /\ Len(last.attempts) = NumRemotes
        /\ last.ret = "True" <=>
              \E i \in Comparable(content[last.dir]) :
                  content[last.dir].branches[i].behind > 0

\* A check that answered True although a fetch failed, in a repository that
\* has a branch that is not the first one behind its tracked branch
C3_Witness ==
    /\ OnHandle("has_pending")
    /\ last.ret = "True"
    /\ last.fetched # Remotes
    /\ Len(content[last.dir].branches) > 1
    /\ content[last.dir].branches[1].behind = 0

\* ---------------------------------------------------------------- C4
\* C4: HasPendingUpdates and Update applied to each element of the list
\* DiscoverAll returned answer a boolean for every element and never raise.
C4_BatchNeverRaises ==
    last.op \in {"has_pending", "update"} /\ last.idx \in 1..Len(repos)
        => last.ret \in Booleans

\* ---------------------------------------------------------------- C5
\* C5 as stated: no directory that fails the validity probe, the home
\* directory included, gets a handle or an error line.
C5_InvalidSilentEverywhere ==
    last.op = "discover" =>
        \A d \in Dirs : ~ IsValid(d) =>
            ~ HasHandleFor(d) /\ ErrorLines("Can not create repo", d) = {}

\* C5 amended: a package candidate that fails the validity probe gets no
\* handle and no error line; the home directory is opened without a probe and
\* when it is not a repository it gets no handle and one error line.
C5_InvalidPackageSilent ==
    last.op = "discover" =>
        /\ \A d \in PkgDirs : ~ IsValid(d) =>
              ~ HasHandleFor(d) /\ ErrorLines("Can not create repo", d) = {}
        /\ ~ IsValid(HOME_DIR) =>
              /\ ~ HasHandleFor(HOME_DIR)
              /\ Cardinality(ErrorLines("Can not create repo", HOME_DIR)) = 1

C5_Witness ==
    /\ last.op = "discover"
    /\ \E d \in PkgDirs : ~ IsValid(d) /\ \E e \in PkgDirs : e > d /\ HasHandleFor(e)
    /\ ~ IsValid(HOME_DIR)

\* ---------------------------------------------------------------- C6
\* C6: a directory that passes the probe but whose handle construction fails
\* gets no handle and exactly one error line, and the directories after it are
\* still processed: the handles returned are those of the good directories,
\* in discovery order.
C6_OpenFailureIsolated ==
    last.op = "discover" =>
        LET Real(h) == IsHandle(h)
            handles == SelectSeq(repos, Real)
            order == [i \in 1..(NumPkgs + 1) |-> i - 1]
        IN /\ \A d \in Dirs : dirState[d] \in {"openfails", "unborn"} =>
                /\ ~ HasHandleFor(d)
                /\ Cardinality(ErrorLines("Can not create repo", d)) = 1
           /\ [i \in 1..Len(handles) |-> handles[i].directory] = SelectSeq(order, IsGood)

C6_Witness ==
    /\ last.op = "discover"
    /\ \E d \in PkgDirs :
          /\ dirState[d] \in {"openfails", "unborn"}
          /\ \E e \in PkgDirs : e > d /\ HasHandleFor(e)

\* ---------------------------------------------------------------- C7
\* C7: in has_pending_updates every remote gets exactly one fetch attempt
\* whatever the earlier fetches did, every failure is logged, and a branch
\* tracked through a remote that was fetched is still compared.
C7_FetchFailureIsolated ==
    OnHandle("has_pending") =>
        LET repo == content[last.dir] IN
        /\ last.attempts = [r \in 1..NumRemotes |-> r]
        /\ Cardinality(ErrorLines("Failed fetching", last.dir))
              = NumRemotes - Cardinality(last.fetched)
        /\ \A i \in Comparable(repo) :
              repo.branches[i].TrackedBranch \in last.fetched =>
                  /\ repo.branches[i].pending = 0
                  /\ repo.branches[i].behind > 0 => last.ret = "True"

\* The first remote failed, a later one was fetched, and the answer True comes
\* from a branch tracked through a fetched remote
C7_Witness ==
    /\ OnHandle("has_pending")
    /\ 1 \notin last.fetched
    /\ last.fetched # {}
    /\ last.ret = "True"
    /\ \A i \in Comparable(content[last.dir]) :
          content[last.dir].branches[i].behind > 0 =>
              content[last.dir].branches[i].TrackedBranch \in last.fetched

\* ---------------------------------------------------------------- C8
\* C8: when the pull is rejected for its credentials or cannot reach the
\* network, update_pyrevit returns False, logs one error, and the head commit
\* read from the repository afterwards is the one from before the call.
C8_RejectedPullLeavesHead ==
    OnHandle("update") /\ last.outcome \in {"auth", "network"} =>
        /\ last.ret = "False"
        /\ content[last.dir].tip = last.preTip
        /\ Cardinality(ErrorLines("Failed updating", last.dir)) = 1

\* A rejected pull on a repository whose head branch had commits to integrate
C8_Witness ==
    /\ OnHandle("update")
    /\ last.outcome = "auth"
    /\ content[last.dir].branches[1].behind + content[last.dir].branches[1].pending > 0

\* ---------------------------------------------------------------- C9
\* C9: a has_pending_updates call that follows a successful update_pyrevit
\* of the same repository returns False.
C9_NothingPendingAfterUpdate ==
    [][(/\ OnHandle("update")
        /\ last.ret = "True"
        /\ last'.op = "has_pending"
        /\ last'.idx = last.idx) => last'.ret = "False"]_vars

\* ---------------------------------------------------------------- C10
\* C10: once a HasPendingUpdates or an Update that follows discovery has
\* finished, no backend repository object opened by discovery is still open.
C10_BackendReleased ==
    last.op \in {"has_pending", "update"} => live = {}
====
